---- MODULE Spec2Model ----
(***************************************************************************)
(* A model of uast-go: the CST -> UAST converter (convert.go: Converter,   *)
(* convertNode, convertChildrenSequential, convertChildrenParallel) and    *)
(* the UAST container with its indices and its reader/writer lock.         *)
(*                                                                         *)
(* Pointers are modelled as addresses.  The *Node allocated by the call    *)
(* convertNode(ts) gets the address of the CST node ts it was made from    *)
(* (every call allocates a fresh node, so the naming is injective); Nil is *)
(* the nil pointer.  Slices are modelled as a reference into a heap of     *)
(* backing arrays, so that sharing a backing array is observable.          *)
(***************************************************************************)
EXTENDS Integers, Sequences, FiniteSets, TLC

Nil == 0

\* ------------------------------------------------------------------ bounds
\* how many configuration calls (SetParallelizationParams, AddMappingRule)
\* are made on a converter
MaxConfig == 1
\* how many operations the callers of a container perform in all
MaxOps == 3
\* how many concurrent callers a container has
NumCallers == 2
\* how many nodes a query of GetCommonAncestor holds at most
MaxQuery == 2
\* how many calls of nextNodeID the goroutines of a converter make in all
MaxIDCalls == 7

\* -------------------------------------------------------- program constants
DefaultParallelThreshold == 50
DefaultMaxGoRoutines == 100
MaxParallelChildren == 1000
\* uint32 values are kept as two 16-bit limbs [hi, lo]: value = hi * 2^16 + lo
LimbBase == 65536

\* ------------------------------------------------------------- the inputs
\* The Tree-sitter nodes Convert is called on: a forest, addressed 1..8.
\* Node 1 has a nil child between two non-nil ones; nodes 4 and 5 carry the
\* same text; node 6 has a negative row; node 3 has a type without a default
\* mapping rule; nodes 7 and 8 have 1000 and 999 children, all of them nil.
TS ==
  (1 :> [Type |-> "program", Text |-> "", StartPoint |-> <<0, 0>>,
         EndPoint |-> <<11, 0>>, Children |-> <<2, Nil, 3>>]) @@
  (2 :> [Type |-> "function", Text |-> "hello", StartPoint |-> <<0, 0>>,
         EndPoint |-> <<5, 1>>, Children |-> <<4, 5>>]) @@
  (3 :> [Type |-> "impl_block", Text |-> "MyStruct", StartPoint |-> <<6, 0>>,
         EndPoint |-> <<9, 0>>, Children |-> <<6>>]) @@
  (4 :> [Type |-> "identifier", Text |-> "x", StartPoint |-> <<1, 1>>,
         EndPoint |-> <<1, 9>>, Children |-> <<>>]) @@
  (5 :> [Type |-> "return_statement", Text |-> "x", StartPoint |-> <<2, 2>>,
         EndPoint |-> <<2, 20>>, Children |-> <<>>]) @@
  (6 :> [Type |-> "method_receiver", Text |-> "", StartPoint |-> <<-2, 65535>>,
         EndPoint |-> <<7, 3>>, Children |-> <<Nil>>]) @@
  (7 :> [Type |-> "statement", Text |-> "", StartPoint |-> <<0, 0>>,
         EndPoint |-> <<0, 0>>, Children |-> [i \in 1..MaxParallelChildren |-> Nil]]) @@
  (8 :> [Type |-> "statement", Text |-> "", StartPoint |-> <<0, 0>>,
         EndPoint |-> <<0, 0>>, Children |-> [i \in 1..(MaxParallelChildren - 1) |-> Nil]])

Nodes == DOMAIN TS

\* the roots Convert is called with (nil included), and the language tags
Roots == {Nil, 1, 2, 4, 7, 8}
Languages == {"go", ""}

\* arguments of SetParallelizationParams and of AddMappingRule
ThresholdArgs == {0, 1, 2}
RoutineArgs == {0, 1}
RuleArgs == {<<"impl_block", "Class">>, <<"function", "Method">>}

\* the caller of a fan-out's i-th task: the node whose children hold c, and
\* the slot i the goroutine closure captured
Parent(c) == CHOOSE p \in Nodes : \E i \in 1..Len(TS[p].Children) : TS[p].Children[i] = c
Slot(c) == CHOOSE i \in 1..Len(TS[Parent(c)].Children) : TS[Parent(c)].Children[i] = c

EmptyMap == [x \in {} |-> Nil]

\* ------------------------------------------------------- pure functions
defaultMappingRules ==
  [t \in {"program", "function", "function_definition", "method_definition",
          "class_definition", "class", "identifier", "variable",
          "string_literal", "number_literal", "integer_literal",
          "float_literal", "boolean_literal", "expression",
          "binary_expression", "call_expression", "statement",
          "if_statement", "for_statement", "while_statement",
          "return_statement", "import_statement", "package_declaration",
          "comment"} |->
     CASE t = "program" -> "File"
       [] t \in {"function", "function_definition"} -> "Function"
       [] t = "method_definition" -> "Method"
       [] t \in {"class_definition", "class"} -> "Class"
       [] t = "identifier" -> "Identifier"
       [] t = "variable" -> "Variable"
       [] t \in {"string_literal", "number_literal", "integer_literal",
                 "float_literal", "boolean_literal"} -> "Literal"
       [] t \in {"expression", "binary_expression"} -> "Expression"
       [] t = "call_expression" -> "Call"
       [] t = "statement" -> "Statement"
       [] t = "if_statement" -> "Condition"
       [] t \in {"for_statement", "while_statement"} -> "Loop"
       [] t = "return_statement" -> "Return"
       [] t = "import_statement" -> "Import"
       [] t = "package_declaration" -> "Package"
       [] t = "comment" -> "Comment"]

\* mapNodeType: the lookup in the converter's table
mapNodeType_Defaults(rules, tsType) ==
  IF tsType \in DOMAIN defaultMappingRules THEN defaultMappingRules[tsType] ELSE "Unknown"

mapNodeType(rules, tsType) ==
  IF tsType \in DOMAIN rules THEN rules[tsType] ELSE "Unknown"

inferRoles(nodeType, tsType) ==
  LET byType ==
        CASE nodeType \in {"Function", "Method", "Class"} -> <<"Declaration", "Definition">>
          [] nodeType = "Call" -> <<"Call">>
          [] nodeType = "Identifier" -> <<"Reference">>
          [] nodeType = "Import" -> <<"Import">>
          [] nodeType = "Statement" -> <<"Statement">>
          [] nodeType = "Expression" -> <<"Expression">>
          [] nodeType \in {"Argument", "Parameter"} -> <<"Argument">>
          [] nodeType = "Condition" -> <<"Condition">>
          [] OTHER -> <<>>
  IN  IF tsType = "method_receiver" THEN Append(byType, "Receiver")
      ELSE IF tsType \in {"function_body", "method_body"} THEN Append(byType, "Body")
      ELSE byType

\* strconv.FormatUint(id, 10): the decimal digits, most significant first
RECURSIVE FormatUint(_)
FormatUint(n) ==
  IF n < 10 THEN <<n>> ELSE Append(FormatUint(n \div 10), n % 10)

\* the Go conversion uint32(x) of an int: x modulo 2^32
Uint32(x) == [hi |-> (x \div LimbBase) % LimbBase, lo |-> x % LimbBase]

\* Position{Line: uint32(point[0] + 1), Column: uint32(point[1] + 1)}
Position_NoOffset(point) == [Line |-> Uint32(point[1]), Column |-> Uint32(point[2])]

Position(point) == [Line |-> Uint32(point[1] + 1), Column |-> Uint32(point[2] + 1)]

\* nextNodeID: atomic.AddUint64(&c.nodeIDCounter, 1), then the formatting
nextNodeID_LostUpdate(counter) ==
  [counter |-> counter, id |-> FormatUint(counter + 1)]

nextNodeID(counter) ==
  [counter |-> counter + 1, id |-> FormatUint(counter + 1)]

\* the node convertNode builds before it converts the children
NewNode(rules, id, ts) ==
  LET nodeType == mapNodeType(rules, ts.Type)
  IN  [ID |-> id, Type |-> nodeType, Token |-> ts.Text,
       Location |-> [Start |-> Position(ts.StartPoint), End |-> Position(ts.EndPoint)],
       Properties |-> ("ts_type" :> ts.Type),
       Roles |-> inferRoles(nodeType, ts.Type),
       Children |-> <<>>]

\* convertNode's choice between the two ways to convert n children
UseParallel_NoUpperBound(n, threshold) == n > threshold

UseParallel(n, threshold) == n > threshold /\ n < MaxParallelChildren

\* convertChildrenSequential: result = append(result, childNode) unless nil
SeqAppendResult(res, childNode) ==
  IF childNode # Nil THEN Append(res, childNode) ELSE res

\* convertChildrenParallel: result[i] = childNode, by the task of slot i
StoreResult_Append(res, i, childNode) ==
  LET done == SelectSeq(res, LAMBDA x : x # Nil)
  IN  [j \in 1..Len(res) |->
         IF j <= Len(done) THEN done[j]
         ELSE IF j = Len(done) + 1 THEN childNode ELSE Nil]

StoreResult(res, i, childNode) == [res EXCEPT ![i] = childNode]

\* convertChildrenParallel: the filter of the nil entries after wg.Wait()
FilterResult_None(res) == res

FilterResult(res) == SelectSeq(res, LAMBDA x : x # Nil)

\* the semaphore channel of one fan-out admits a send while it is not full
SemCanAcquire_OneLess(held, capacity) == held < capacity - 1

SemCanAcquire_Always(held, capacity) == TRUE

SemCanAcquire(held, capacity) == held < capacity

\* wg.Wait() returns when the counter of the WaitGroup is zero
WaitReturns_NoWait(counter) == TRUE

WaitReturns(counter) == counter = 0

\* Convert's guard
RootIsNil_Never(root) == FALSE

RootIsNil(root) == root = Nil

\* ------------------------------------------------------------- the indices
\* u.TypeIndex[k] = append(u.TypeIndex[k], node): acc holds the two maps and
\* the heap of backing arrays
IndexAppend(acc, field, key, node) ==
  LET Appended(a) ==
        IF key \in DOMAIN a[field]
        THEN [a EXCEPT !.arrays[a[field][key].arr] = Append(@, node),
                       ![field][key].len = @ + 1]
        ELSE [a EXCEPT !.arrays = Append(@, <<node>>),
                       ![field] = @ @@ (key :> [nil |-> FALSE,
                                                arr |-> Len(a.arrays) + 1,
                                                len |-> 1])]
  IN  \* acc is bound once, so that it is evaluated once
      CHOOSE r \in {Appended(a) : a \in {acc}} : TRUE

\* the closure build of buildIndices, over the heap h of nodes
build_NoChildren(h, node, acc) ==
  IF node = Nil THEN acc
  ELSE LET a1 == IndexAppend(acc, "TypeIndex", h[node].Type, node)
       IN  IF h[node].Token # ""
           THEN IndexAppend(a1, "TokenIndex", h[node].Token, node)
           ELSE a1

RECURSIVE build(_, _, _), buildChildren(_, _, _, _)

build(h, node, acc) ==
  IF node = Nil THEN acc
  ELSE LET a1 == IndexAppend(acc, "TypeIndex", h[node].Type, node)
           a2 == IF h[node].Token # ""
                 THEN IndexAppend(a1, "TokenIndex", h[node].Token, node)
                 ELSE a1
       IN  buildChildren(h, h[node].Children, 1, a2)

buildChildren(h, children, i, acc) ==
  IF i > Len(children) THEN acc
  ELSE buildChildren(h, children, i + 1, build(h, children[i], acc))

\* the body of buildIndices: fresh maps, then build(u.Root)
buildIndices(h, root, heap) ==
  build(h, root, [TypeIndex |-> EmptyMap, TokenIndex |-> EmptyMap, arrays |-> heap])

\* no container yet
NoUAST ==
  [live |-> FALSE, Root |-> Nil, Language |-> "", Metadata |-> EmptyMap,
   TypeIndex |-> EmptyMap, TokenIndex |-> EmptyMap]

\* NewUAST(root, language): the container and the heap after buildIndices
NewUAST(h, root, language, heap) ==
  LET b == buildIndices(h, root, heap)
  IN  [u |-> [live |-> TRUE, Root |-> root, Language |-> language,
              Metadata |-> EmptyMap, TypeIndex |-> b.TypeIndex,
              TokenIndex |-> b.TokenIndex],
       arrays |-> b.arrays]

\* ------------------------------------------------------------- the slices
\* the empty slice literal []*Node{}: not nil, no backing array
EmptySlice == [nil |-> FALSE, arr |-> Nil, len |-> 0]

\* the elements a slice reference shows
SliceValue(heap, ref) ==
  IF ref.arr = Nil THEN <<>> ELSE SubSeq(heap[ref.arr], 1, ref.len)

\* slices.Clone(nodes): a new backing array with the same elements
CloneSlice_Alias(heap, ref) == [heap |-> heap, ref |-> ref]

CloneSlice(heap, ref) ==
  [heap |-> Append(heap, SliceValue(heap, ref)),
   ref |-> [nil |-> FALSE, arr |-> Len(heap) + 1, len |-> ref.len]]

\* the body of FindByType and of FindByToken over their index
FindIn(index, key, heap) ==
  IF key \in DOMAIN index THEN CloneSlice(heap, index[key])
  ELSE [heap |-> heap, ref |-> EmptySlice]

\* u.Metadata[key] = value
SetMetadata_Replace(m, key, value) == (key :> value)

SetMetadata(m, key, value) ==
  [k \in DOMAIN m \cup {key} |-> IF k = key THEN value ELSE m[k]]

\* sync.RWMutex: RLock passes while no writer holds the lock, Lock passes
\* while nobody holds it
CanRLock_Always(m) == TRUE

CanRLock(m) == m.writer = Nil

CanLock_IgnoreReaders(m) == m.writer = Nil

CanLock(m) == m.writer = Nil /\ m.readers = 0

\* the functions of the library that read u.Metadata
Formats == {"SimpleTextFormat.Format", "JSONFormat.Format", "processDefault"}

\* len(u.Metadata) and the range over u.Metadata, with no lock held: what
\* the read sees of a map that held `before` when the read began and holds
\* `now` at its end.  A read with a map write within it is a data race: it
\* sees the map before or after the write, or the runtime stops the program
\* (fatal error: concurrent map read and map write).
MetadataRead(before, now, raced) ==
  IF raced
  THEN {[fatal |-> FALSE, Metadata |-> before], [fatal |-> FALSE, Metadata |-> now],
        [fatal |-> TRUE, Metadata |-> EmptyMap]}
  ELSE {[fatal |-> FALSE, Metadata |-> now]}

\* a hand-built tree of nodes, as NewUAST takes it: the shape and the fields
\* Convert gives the CST of TS
SampleNodes ==
  [n \in Nodes |->
     [NewNode(defaultMappingRules, FormatUint(n), TS[n])
        EXCEPT !.Children = FilterResult(TS[n].Children)]]

SampleRoots == {Nil, 1}

\* the arguments the callers of a container pass
TypeArgs == {"Unknown", "Class"}
TokenArgs == {"x"}
MetadataArgs == {<<"filename", "a.go">>, <<"filename", "b.go">>, <<"version", "1.0">>}
Mutations == {"set", "swap", "truncate"}

\* ------------------------------------------------- the common ancestor
\* a hand-built Node: the fields a caller leaves out have their zero value
GraphNode(id, children) ==
  [ID |-> id, Type |-> "", Token |-> "",
   Location |-> [Start |-> [Line |-> Uint32(0), Column |-> Uint32(0)],
                 End |-> [Line |-> Uint32(0), Column |-> Uint32(0)]],
   Properties |-> EmptyMap, Roles |-> <<>>, Children |-> children]

\* The node graphs GetCommonAncestor is called on, addressed 1..5: R = 1 with
\* the children [A, B] = [2, 3], A with the child [X] = [4], and a node 5 no
\* child link leads to.  "tree" carries the IDs a converter gives; "cyclic"
\* adds a shared child, a nil child and links back to A and to R; in
\* "equalIDs" A and B carry the same ID string; "zeroIDs" is built by hand
\* without IDs.
SampleGraphs ==
  [tree |->
     (1 :> GraphNode(<<1>>, <<2, 3>>)) @@ (2 :> GraphNode(<<2>>, <<4>>)) @@
     (3 :> GraphNode(<<3>>, <<>>)) @@ (4 :> GraphNode(<<4>>, <<>>)) @@
     (5 :> GraphNode(<<5>>, <<>>)),
   cyclic |->
     (1 :> GraphNode(<<1>>, <<2, 3>>)) @@ (2 :> GraphNode(<<2>>, <<Nil, 4>>)) @@
     (3 :> GraphNode(<<3>>, <<4, 1>>)) @@ (4 :> GraphNode(<<4>>, <<2>>)) @@
     (5 :> GraphNode(<<5>>, <<5>>)),
   equalIDs |->
     (1 :> GraphNode(<<1>>, <<2, 3>>)) @@ (2 :> GraphNode(<<2>>, <<4>>)) @@
     (3 :> GraphNode(<<2>>, <<>>)) @@ (4 :> GraphNode(<<4>>, <<>>)) @@
     (5 :> GraphNode(<<5>>, <<>>)),
   zeroIDs |->
     (1 :> GraphNode(<<>>, <<2, 3>>)) @@ (2 :> GraphNode(<<>>, <<4>>)) @@
     (3 :> GraphNode(<<>>, <<>>)) @@ (4 :> GraphNode(<<>>, <<>>)) @@
     (5 :> GraphNode(<<>>, <<>>))]

GraphNames == DOMAIN SampleGraphs

\* the arguments of GetCommonAncestor: the nodes (nil entries included) and
\* the root
GraphNodes == 1..5
QueryRoots == {Nil, 1, 2}

RECURSIVE Queries(_)
Queries(n) ==
  IF n = 0 THEN {<<>>}
  ELSE LET shorter == Queries(n - 1)
       IN  shorter \cup {Append(q, x) : q \in {s \in shorter : Len(s) = n - 1},
                                         x \in GraphNodes \cup {Nil}}

\* GetCommonAncestor: the three checks before the paths are built, in the
\* order of the code
DegenerateCase_RootFirst(nodes, root) ==
  IF root = Nil THEN [returns |-> TRUE, result |-> Nil]
  ELSE IF Len(nodes) = 0 THEN [returns |-> TRUE, result |-> Nil]
  ELSE IF Len(nodes) = 1 THEN [returns |-> TRUE, result |-> nodes[1]]
  ELSE [returns |-> FALSE, result |-> Nil]

DegenerateCase_FirstNode(nodes, root) ==
  IF Len(nodes) = 0 THEN [returns |-> TRUE, result |-> Nil]
  ELSE IF Len(nodes) >= 1 THEN [returns |-> TRUE, result |-> nodes[1]]
  ELSE IF root = Nil THEN [returns |-> TRUE, result |-> Nil]
  ELSE [returns |-> FALSE, result |-> Nil]

DegenerateCase(nodes, root) ==
  IF Len(nodes) = 0 THEN [returns |-> TRUE, result |-> Nil]
  ELSE IF Len(nodes) = 1 THEN [returns |-> TRUE, result |-> nodes[1]]
  ELSE IF root = Nil THEN [returns |-> TRUE, result |-> Nil]
  ELSE [returns |-> FALSE, result |-> Nil]

\* buildPathToHelper: visited[current.ID]
Visited_Never(visited, id) == FALSE

Visited(visited, id) == id \in visited

\* GetCommonAncestor: the key of nodePaths a query node's path is stored under
PathKey(h, node) == h[node].ID

\* nodePaths[key] = path
StorePath(paths, key, path) ==
  [k \in DOMAIN paths \cup {key} |-> IF k = key THEN path ELSE paths[k]]

\* GetCommonAncestor: a shortest path of nodePaths.  The range over the map
\* meets the paths in any order; every shortest path gives the same result,
\* since a position counts only when all the paths agree on it.
ShortestPath(paths) ==
  CHOOSE p \in {paths[k] : k \in DOMAIN paths} :
    \A k \in DOMAIN paths : Len(p) <= Len(paths[k])

\* GetCommonAncestor: the loop over the positions of the shortest path
RECURSIVE ComparePaths(_, _, _, _)
ComparePaths(paths, shortest, i, commonAncestor) ==
  IF i > Len(shortest) THEN commonAncestor
  ELSE IF \A k \in DOMAIN paths : i <= Len(paths[k]) /\ paths[k][i] = shortest[i]
       THEN ComparePaths(paths, shortest, i + 1, shortest[i])
       ELSE commonAncestor

\* GetCommonAncestor after the paths are built
CommonAncestorOf(paths) ==
  IF DOMAIN paths = {} THEN Nil
  ELSE ComparePaths(paths, ShortestPath(paths), 1, Nil)

\* ------------------------------------------------------------------ state
VARIABLES
  mappingRules,       \* Converter.mappingRules
  nodeIDCounter,      \* Converter.nodeIDCounter
  parallelThreshold,  \* Converter.parallelThreshold
  maxGoRoutines,      \* Converter.maxGoRoutines
  nconfig,            \* configuration calls made so far
  conv,               \* the Convert call: [pc, root, language, rules (the table it found)]
  frame,              \* per CST node: where its convertNode call is
  idx,                \* per CST node: the index of its loop over the children
  result,             \* per CST node: the result slice of its children conversion
  sem,                \* per CST node: messages held by its fan-out's sem channel
  wg,                 \* per CST node: the counter of its fan-out's WaitGroup
  task,               \* per CST node: where the goroutine spawned for it is
  order,              \* per CST node: its children in the order their tasks stored
  unode,              \* the heap of *Node: address -> Node
  uast,               \* the container (UAST)
  arrays,             \* the heap of backing arrays of []*Node slices
  mu,                 \* UAST.mu: [writer, readers]
  caller,             \* per caller of the container: [pc, op, arg, val, ret, nops]
  anc,                \* the GetCommonAncestor call and its path search
  idcall,             \* per goroutine calling nextNodeID: [pc, id, got]
  reader              \* per goroutine formatting the container: [pc, op, before, raced, ret]

vars == <<mappingRules, nodeIDCounter, parallelThreshold, maxGoRoutines, nconfig,
          conv, frame, idx, result, sem, wg, task, order, unode, uast, arrays, mu, caller,
          anc, idcall, reader>>

Callers == 1..NumCallers

\* the operations called on the container so far
RECURSIVE SumOps(_)
SumOps(t) == IF t = 0 THEN 0 ELSE caller[t].nops + SumOps(t - 1)

OpsCalled == SumOps(NumCallers)

\* a caller that has called nothing yet; its result slice is the nil slice
IdleCaller ==
  [pc |-> "idle", op |-> "", arg |-> "", val |-> "",
   ret |-> [nil |-> TRUE, arr |-> Nil, len |-> 0], nops |-> 0]

\* a goroutine that has formatted nothing yet
IdleReader ==
  [pc |-> "idle", op |-> "", before |-> EmptyMap, raced |-> FALSE,
   ret |-> [fatal |-> FALSE, Language |-> "", Metadata |-> EmptyMap]]

\* no call of GetCommonAncestor yet
IdleAncestor ==
  [pc |-> "idle", nodes |-> <<>>, root |-> Nil, i |-> 0, target |-> Nil,
   cur |-> Nil, stack |-> <<>>, visited |-> {}, visits |-> <<>>, ret |-> <<>>,
   nodePaths |-> EmptyMap, result |-> Nil]

\* a goroutine that has not called nextNodeID yet
IdleIDCaller == [pc |-> "idle", id |-> 0, got |-> <<>>]

\* NewConverter()
Init ==
  /\ mappingRules = defaultMappingRules
  /\ nodeIDCounter = 0
  /\ parallelThreshold = DefaultParallelThreshold
  /\ maxGoRoutines = DefaultMaxGoRoutines
  /\ nconfig = 0
  /\ conv = [pc |-> "idle", root |-> Nil, language |-> "", rules |-> EmptyMap]
  /\ frame = [n \in Nodes |-> "none"]
  /\ idx = [n \in Nodes |-> 0]
  /\ result = [n \in Nodes |-> <<>>]
  /\ sem = [n \in Nodes |-> 0]
  /\ wg = [n \in Nodes |-> 0]
  /\ task = [n \in Nodes |-> "none"]
  /\ order = [n \in Nodes |-> <<>>]
  /\ unode = EmptyMap
  /\ uast = NoUAST
  /\ arrays = <<>>
  /\ mu = [writer |-> Nil, readers |-> 0]
  /\ caller = [t \in Callers |-> IdleCaller]
  /\ anc = IdleAncestor
  /\ idcall = [g \in Callers |-> IdleIDCaller]
  /\ reader = [t \in Callers |-> IdleReader]

\* ------------------------------------------------------ converter actions
SetParallelizationParams(threshold, maxRoutines) ==
  /\ conv.pc = "idle"
  /\ nconfig < MaxConfig
  /\ nconfig' = nconfig + 1
  /\ parallelThreshold' = IF threshold > 0 THEN threshold ELSE parallelThreshold
  /\ maxGoRoutines' = IF maxRoutines > 0 THEN maxRoutines ELSE maxGoRoutines
  /\ UNCHANGED <<reader, anc, idcall, mappingRules, nodeIDCounter, conv, frame, idx, result, sem, wg, task,
                 unode, uast, arrays, mu, caller, order>>

AddMappingRule(treeType, uastType) ==
  /\ conv.pc \in {"idle", "done"}
  /\ nconfig < MaxConfig
  /\ nconfig' = nconfig + 1
  /\ mappingRules' = [t \in DOMAIN mappingRules \cup {treeType} |->
                        IF t = treeType THEN uastType ELSE mappingRules[t]]
  /\ UNCHANGED <<reader, anc, idcall, nodeIDCounter, parallelThreshold, maxGoRoutines, conv, frame, idx,
                 result, sem, wg, task, unode, uast, arrays, mu, caller, order>>

\* Convert(root, language) up to its call of convertNode(root)
Convert(root, language) ==
  /\ conv.pc = "idle"
  /\ IF RootIsNil(root)
     THEN /\ conv' = [pc |-> "error", root |-> root, language |-> language,
                       rules |-> mappingRules]
          /\ UNCHANGED <<frame, uast, arrays>>
     ELSE IF root = Nil
     THEN \* convertNode(nil) returns nil, and NewUAST wraps it
          LET new == NewUAST(unode, Nil, language, arrays)
          IN  /\ conv' = [pc |-> "done", root |-> root, language |-> language,
                       rules |-> mappingRules]
              /\ uast' = new.u
              /\ arrays' = new.arrays
              /\ UNCHANGED frame
     ELSE /\ conv' = [pc |-> "running", root |-> root, language |-> language,
                       rules |-> mappingRules]
          /\ frame' = [frame EXCEPT ![root] = "called"]
          /\ UNCHANGED <<uast, arrays>>
  /\ UNCHANGED <<reader, anc, idcall, mappingRules, nodeIDCounter, parallelThreshold, maxGoRoutines, nconfig,
                 idx, result, sem, wg, task, unode, mu, caller, order>>

\* convertNode(n) up to the choice of how to convert the children
convertNode(n) ==
  /\ frame[n] = "called"
  /\ LET next == nextNodeID(nodeIDCounter)
         len == Len(TS[n].Children)
         par == UseParallel(len, parallelThreshold)
     IN  /\ nodeIDCounter' = next.counter
         /\ unode' = unode @@ (n :> NewNode(mappingRules, next.id, TS[n]))
         /\ frame' = [frame EXCEPT ![n] = IF par THEN "par" ELSE "seq"]
         /\ result' = [result EXCEPT ![n] = IF par THEN [i \in 1..len |-> Nil] ELSE <<>>]
  /\ idx' = [idx EXCEPT ![n] = 1]
  /\ sem' = [sem EXCEPT ![n] = 0]
  /\ wg' = [wg EXCEPT ![n] = 0]
  /\ UNCHANGED <<reader, anc, idcall, mappingRules, parallelThreshold, maxGoRoutines, nconfig, conv, task,
                 uast, arrays, mu, caller, order>>

\* convertChildrenSequential: one turn of the loop, up to the call
\* convertNode(child); for a nil child the call returns nil at once
SeqStep(n) ==
  /\ frame[n] = "seq"
  /\ idx[n] <= Len(TS[n].Children)
  /\ LET child == TS[n].Children[idx[n]]
     IN  IF child = Nil
         THEN /\ result' = [result EXCEPT ![n] = SeqAppendResult(@, Nil)]
              /\ idx' = [idx EXCEPT ![n] = @ + 1]
              /\ UNCHANGED frame
         ELSE /\ frame' = [frame EXCEPT ![n] = "seqwait", ![child] = "called"]
              /\ UNCHANGED <<result, idx>>
  /\ UNCHANGED <<reader, anc, idcall, mappingRules, nodeIDCounter, parallelThreshold, maxGoRoutines, nconfig,
                 conv, sem, wg, task, unode, uast, arrays, mu, caller, order>>

\* convertChildrenSequential: convertNode(child) has returned
SeqAppend(n) ==
  /\ frame[n] = "seqwait"
  /\ LET child == TS[n].Children[idx[n]]
     IN  /\ frame[child] = "returned"
         /\ result' = [result EXCEPT ![n] = SeqAppendResult(@, child)]
  /\ idx' = [idx EXCEPT ![n] = @ + 1]
  /\ frame' = [frame EXCEPT ![n] = "seq"]
  /\ UNCHANGED <<reader, anc, idcall, mappingRules, nodeIDCounter, parallelThreshold, maxGoRoutines, nconfig,
                 conv, sem, wg, task, unode, uast, arrays, mu, caller, order>>

\* convertChildrenSequential returns; convertNode sets node.Children and returns
SeqReturn(n) ==
  /\ frame[n] = "seq"
  /\ idx[n] > Len(TS[n].Children)
  /\ unode' = [unode EXCEPT ![n].Children = result[n]]
  /\ frame' = [frame EXCEPT ![n] = "returned"]
  /\ UNCHANGED <<reader, anc, idcall, mappingRules, nodeIDCounter, parallelThreshold, maxGoRoutines, nconfig,
                 conv, idx, result, sem, wg, task, uast, arrays, mu, caller, order>>

\* convertChildrenParallel: one turn of the loop, up to wg.Add(1)
ParStep(n) ==
  /\ frame[n] = "par"
  /\ idx[n] <= Len(TS[n].Children)
  /\ LET child == TS[n].Children[idx[n]]
     IN  IF child = Nil
         THEN /\ idx' = [idx EXCEPT ![n] = @ + 1]
              /\ UNCHANGED <<wg, frame>>
         ELSE /\ wg' = [wg EXCEPT ![n] = @ + 1]
              /\ frame' = [frame EXCEPT ![n] = "paracq"]
              /\ UNCHANGED idx
  /\ UNCHANGED <<reader, anc, idcall, mappingRules, nodeIDCounter, parallelThreshold, maxGoRoutines, nconfig,
                 conv, result, sem, task, unode, uast, arrays, mu, caller, order>>

\* convertChildrenParallel: sem <- struct{}{} and the go statement
ParAcquire(n) ==
  /\ frame[n] = "paracq"
  /\ SemCanAcquire(sem[n], maxGoRoutines)
  /\ sem' = [sem EXCEPT ![n] = @ + 1]
  /\ LET child == TS[n].Children[idx[n]]
     IN  /\ task' = [task EXCEPT ![child] = "run"]
         /\ frame' = [frame EXCEPT ![n] = "par", ![child] = "called"]
  /\ idx' = [idx EXCEPT ![n] = @ + 1]
  /\ UNCHANGED <<reader, anc, idcall, mappingRules, nodeIDCounter, parallelThreshold, maxGoRoutines, nconfig,
                 conv, result, wg, unode, uast, arrays, mu, caller, order>>

\* the goroutine of child c: convertNode(child) has returned, result[i] = childNode
TaskStore(c) ==
  /\ task[c] = "run"
  /\ frame[c] = "returned"
  /\ result' = [result EXCEPT ![Parent(c)] = StoreResult(@, Slot(c), c)]
  /\ order' = [order EXCEPT ![Parent(c)] = Append(@, c)]
  /\ task' = [task EXCEPT ![c] = "release"]
  /\ UNCHANGED <<reader, anc, idcall, mappingRules, nodeIDCounter, parallelThreshold, maxGoRoutines, nconfig,
                 conv, frame, idx, sem, wg, unode, uast, arrays, mu, caller>>

\* the goroutine of child c: the deferred <-sem
TaskRelease(c) ==
  /\ task[c] = "release"
  /\ sem' = [sem EXCEPT ![Parent(c)] = @ - 1]
  /\ task' = [task EXCEPT ![c] = "done"]
  /\ UNCHANGED <<reader, anc, idcall, mappingRules, nodeIDCounter, parallelThreshold, maxGoRoutines, nconfig,
                 conv, frame, idx, result, wg, unode, uast, arrays, mu, caller, order>>

\* the goroutine of child c: the deferred wg.Done(), and the goroutine ends
TaskDone(c) ==
  /\ task[c] = "done"
  /\ wg' = [wg EXCEPT ![Parent(c)] = @ - 1]
  /\ task' = [task EXCEPT ![c] = "exit"]
  /\ UNCHANGED <<reader, anc, idcall, mappingRules, nodeIDCounter, parallelThreshold, maxGoRoutines, nconfig,
                 conv, frame, idx, result, sem, unode, uast, arrays, mu, caller, order>>

\* convertChildrenParallel: wg.Wait() returns, the nil entries are filtered
\* out; convertNode sets node.Children and returns
ParReturn(n) ==
  /\ frame[n] = "par"
  /\ idx[n] > Len(TS[n].Children)
  /\ WaitReturns(wg[n])
  /\ unode' = [unode EXCEPT ![n].Children = FilterResult(result[n])]
  /\ frame' = [frame EXCEPT ![n] = "returned"]
  /\ UNCHANGED <<reader, anc, idcall, mappingRules, nodeIDCounter, parallelThreshold, maxGoRoutines, nconfig,
                 conv, idx, result, sem, wg, task, uast, arrays, mu, caller, order>>

\* Convert: convertNode(root) has returned; NewUAST and the return
ConvertReturn ==
  /\ conv.pc = "running"
  /\ frame[conv.root] = "returned"
  /\ LET new == NewUAST(unode, conv.root, conv.language, arrays)
     IN  /\ uast' = new.u
         /\ arrays' = new.arrays
  /\ conv' = [conv EXCEPT !.pc = "done"]
  /\ UNCHANGED <<reader, anc, idcall, mappingRules, nodeIDCounter, parallelThreshold, maxGoRoutines, nconfig,
                 frame, idx, result, sem, wg, task, unode, mu, caller, order>>

Next ==
  \/ \E th \in ThresholdArgs, mr \in RoutineArgs : SetParallelizationParams(th, mr)
  \/ \E r \in RuleArgs : AddMappingRule(r[1], r[2])
  \/ \E root \in Roots, language \in Languages : Convert(root, language)
  \/ \E n \in Nodes : convertNode(n)
  \/ \E n \in Nodes : SeqStep(n)
  \/ \E n \in Nodes : SeqAppend(n)
  \/ \E n \in Nodes : SeqReturn(n)
  \/ \E n \in Nodes : ParStep(n)
  \/ \E n \in Nodes : ParAcquire(n)
  \/ \E n \in Nodes : TaskStore(n)
  \/ \E n \in Nodes : TaskRelease(n)
  \/ \E n \in Nodes : TaskDone(n)
  \/ \E n \in Nodes : ParReturn(n)
  \/ ConvertReturn

Spec == Init /\ [][Next]_vars

\* The steps of a conversion that has begun: the goroutine of Convert and the
\* goroutines of the fan-outs.  The Go scheduler runs a goroutine that can
\* run, so a step that stays possible is taken.
ConvertSteps ==
  \/ \E n \in Nodes : convertNode(n)
  \/ \E n \in Nodes : SeqStep(n)
  \/ \E n \in Nodes : SeqAppend(n)
  \/ \E n \in Nodes : SeqReturn(n)
  \/ \E n \in Nodes : ParStep(n)
  \/ \E n \in Nodes : ParAcquire(n)
  \/ \E n \in Nodes : TaskStore(n)
  \/ \E n \in Nodes : TaskRelease(n)
  \/ \E n \in Nodes : TaskDone(n)
  \/ \E n \in Nodes : ParReturn(n)
  \/ ConvertReturn

SpecLive == Spec /\ WF_vars(ConvertSteps)

\* ------------------------------------------------------ container actions
\* a caller enters FindByType(nodeType), up to u.mu.RLock()
CallFindByType(t, nodeType) ==
  /\ uast.live
  /\ caller[t].pc = "idle"
  /\ OpsCalled < MaxOps
  /\ caller' = [caller EXCEPT ![t].pc = "rlock", ![t].op = "FindByType",
                              ![t].arg = nodeType, ![t].val = "",
                              ![t].nops = @ + 1]
  /\ UNCHANGED <<reader, anc, idcall, mappingRules, nodeIDCounter, parallelThreshold, maxGoRoutines, nconfig,
                 conv, frame, idx, result, sem, wg, task, order, unode, uast, arrays, mu>>

\* a caller enters FindByToken(token), up to u.mu.RLock()
CallFindByToken(t, token) ==
  /\ uast.live
  /\ caller[t].pc = "idle"
  /\ OpsCalled < MaxOps
  /\ caller' = [caller EXCEPT ![t].pc = "rlock", ![t].op = "FindByToken",
                              ![t].arg = token, ![t].val = "",
                              ![t].nops = @ + 1]
  /\ UNCHANGED <<reader, anc, idcall, mappingRules, nodeIDCounter, parallelThreshold, maxGoRoutines, nconfig,
                 conv, frame, idx, result, sem, wg, task, order, unode, uast, arrays, mu>>

\* a caller enters AddMetadata(key, value), up to u.mu.Lock()
CallAddMetadata(t, key, value) ==
  /\ uast.live
  /\ caller[t].pc = "idle"
  /\ OpsCalled < MaxOps
  /\ caller' = [caller EXCEPT ![t].pc = "lock", ![t].op = "AddMetadata",
                              ![t].arg = key, ![t].val = value,
                              ![t].nops = @ + 1]
  /\ UNCHANGED <<reader, anc, idcall, mappingRules, nodeIDCounter, parallelThreshold, maxGoRoutines, nconfig,
                 conv, frame, idx, result, sem, wg, task, order, unode, uast, arrays, mu>>

\* a caller enters buildIndices(), up to u.mu.Lock()
CallBuildIndices(t) ==
  /\ uast.live
  /\ caller[t].pc = "idle"
  /\ OpsCalled < MaxOps
  /\ caller' = [caller EXCEPT ![t].pc = "lock", ![t].op = "buildIndices",
                              ![t].arg = "", ![t].val = "",
                              ![t].nops = @ + 1]
  /\ UNCHANGED <<reader, anc, idcall, mappingRules, nodeIDCounter, parallelThreshold, maxGoRoutines, nconfig,
                 conv, frame, idx, result, sem, wg, task, order, unode, uast, arrays, mu>>

\* u.mu.RLock() returns
RLock(t) ==
  /\ caller[t].pc = "rlock"
  /\ CanRLock(mu)
  /\ mu' = [mu EXCEPT !.readers = @ + 1]
  /\ caller' = [caller EXCEPT ![t].pc = "reading"]
  /\ UNCHANGED <<reader, anc, idcall, mappingRules, nodeIDCounter, parallelThreshold, maxGoRoutines, nconfig,
                 conv, frame, idx, result, sem, wg, task, order, unode, uast, arrays>>

\* u.mu.Lock() returns
Lock(t) ==
  /\ caller[t].pc = "lock"
  /\ CanLock(mu)
  /\ mu' = [mu EXCEPT !.writer = t]
  /\ caller' = [caller EXCEPT ![t].pc = "writing"]
  /\ UNCHANGED <<reader, anc, idcall, mappingRules, nodeIDCounter, parallelThreshold, maxGoRoutines, nconfig,
                 conv, frame, idx, result, sem, wg, task, order, unode, uast, arrays>>

\* FindByType under the read lock: the lookup, the clone, the deferred RUnlock
FindByType(t) ==
  /\ caller[t].pc = "reading"
  /\ caller[t].op = "FindByType"
  /\ LET found == FindIn(uast.TypeIndex, caller[t].arg, arrays)
     IN  /\ arrays' = found.heap
         /\ caller' = [caller EXCEPT ![t].pc = "idle", ![t].ret = found.ref]
  /\ mu' = [mu EXCEPT !.readers = @ - 1]
  /\ UNCHANGED <<reader, anc, idcall, mappingRules, nodeIDCounter, parallelThreshold, maxGoRoutines, nconfig,
                 conv, frame, idx, result, sem, wg, task, order, unode, uast>>

\* FindByToken under the read lock: the lookup, the clone, the deferred RUnlock
FindByToken(t) ==
  /\ caller[t].pc = "reading"
  /\ caller[t].op = "FindByToken"
  /\ LET found == FindIn(uast.TokenIndex, caller[t].arg, arrays)
     IN  /\ arrays' = found.heap
         /\ caller' = [caller EXCEPT ![t].pc = "idle", ![t].ret = found.ref]
  /\ mu' = [mu EXCEPT !.readers = @ - 1]
  /\ UNCHANGED <<reader, anc, idcall, mappingRules, nodeIDCounter, parallelThreshold, maxGoRoutines, nconfig,
                 conv, frame, idx, result, sem, wg, task, order, unode, uast>>

\* AddMetadata under the write lock: the map write, the deferred Unlock; the
\* write falls within every read of the map that is under way
AddMetadata(t) ==
  /\ caller[t].pc = "writing"
  /\ caller[t].op = "AddMetadata"
  /\ uast' = [uast EXCEPT !.Metadata = SetMetadata(@, caller[t].arg, caller[t].val)]
  /\ mu' = [mu EXCEPT !.writer = Nil]
  /\ caller' = [caller EXCEPT ![t].pc = "idle", ![t].op = "", ![t].arg = "",
                              ![t].val = ""]
  /\ reader' = [r \in Callers |->
                  IF reader[r].pc = "metadata"
                  THEN [reader[r] EXCEPT !.raced = TRUE] ELSE reader[r]]
  /\ UNCHANGED <<anc, idcall, mappingRules, nodeIDCounter, parallelThreshold, maxGoRoutines, nconfig,
                 conv, frame, idx, result, sem, wg, task, order, unode, arrays>>

\* buildIndices under the write lock: the rebuild, the deferred Unlock
BuildIndices(t) ==
  /\ caller[t].pc = "writing"
  /\ caller[t].op = "buildIndices"
  /\ LET b == buildIndices(unode, uast.Root, arrays)
     IN  /\ uast' = [uast EXCEPT !.TypeIndex = b.TypeIndex, !.TokenIndex = b.TokenIndex]
         /\ arrays' = b.arrays
  /\ mu' = [mu EXCEPT !.writer = Nil]
  /\ caller' = [caller EXCEPT ![t].pc = "idle", ![t].op = "", ![t].arg = "",
                              ![t].val = ""]
  /\ UNCHANGED <<reader, anc, idcall, mappingRules, nodeIDCounter, parallelThreshold, maxGoRoutines, nconfig,
                 conv, frame, idx, result, sem, wg, task, order, unode>>

\* the caller changes the slice a lookup returned to it: it overwrites the
\* first element, swaps the first and the last, or reslices one shorter
MutateReturned(t, how) ==
  /\ caller[t].pc = "idle"
  /\ caller[t].op \in {"FindByType", "FindByToken"}
  /\ OpsCalled < MaxOps
  /\ LET ref == caller[t].ret
     IN  /\ ref.len >= (IF how = "swap" THEN 2 ELSE 1)
         /\ arrays' =
              CASE how = "set" -> [arrays EXCEPT ![ref.arr][1] = Nil]
                [] how = "swap" -> [arrays EXCEPT ![ref.arr][1] = arrays[ref.arr][ref.len],
                                                  ![ref.arr][ref.len] = arrays[ref.arr][1]]
                [] OTHER -> arrays
         /\ caller' = [caller EXCEPT ![t].op = "mutate", ![t].val = how,
                                     ![t].nops = @ + 1,
                                     ![t].ret = IF how = "truncate"
                                                THEN [ref EXCEPT !.len = @ - 1] ELSE ref]
  /\ UNCHANGED <<reader, anc, idcall, mappingRules, nodeIDCounter, parallelThreshold, maxGoRoutines, nconfig,
                 conv, frame, idx, result, sem, wg, task, order, unode, uast, mu>>

\* NewUAST(root, language) on a hand-built tree, beside an unused converter
InitUAST ==
  /\ mappingRules = defaultMappingRules
  /\ nodeIDCounter = 0
  /\ parallelThreshold = DefaultParallelThreshold
  /\ maxGoRoutines = DefaultMaxGoRoutines
  /\ nconfig = 0
  /\ conv = [pc |-> "idle", root |-> Nil, language |-> "", rules |-> EmptyMap]
  /\ frame = [n \in Nodes |-> "none"]
  /\ idx = [n \in Nodes |-> 0]
  /\ result = [n \in Nodes |-> <<>>]
  /\ sem = [n \in Nodes |-> 0]
  /\ wg = [n \in Nodes |-> 0]
  /\ task = [n \in Nodes |-> "none"]
  /\ order = [n \in Nodes |-> <<>>]
  /\ unode = SampleNodes
  /\ \E root \in SampleRoots :
       LET new == NewUAST(SampleNodes, root, "go", <<>>)
       IN  /\ uast = new.u
           /\ arrays = new.arrays
  /\ mu = [writer |-> Nil, readers |-> 0]
  /\ caller = [t \in Callers |-> IdleCaller]
  /\ anc = IdleAncestor
  /\ idcall = [g \in Callers |-> IdleIDCaller]
  /\ reader = [t \in Callers |-> IdleReader]

NextUAST ==
  \/ \E t \in Callers, k \in TypeArgs : CallFindByType(t, k)
  \/ \E t \in Callers, k \in TokenArgs : CallFindByToken(t, k)
  \/ \E t \in Callers, kv \in MetadataArgs : CallAddMetadata(t, kv[1], kv[2])
  \/ \E t \in Callers : CallBuildIndices(t)
  \/ \E t \in Callers : RLock(t)
  \/ \E t \in Callers : Lock(t)
  \/ \E t \in Callers : FindByType(t)
  \/ \E t \in Callers : FindByToken(t)
  \/ \E t \in Callers : AddMetadata(t)
  \/ \E t \in Callers : BuildIndices(t)
  \/ \E t \in Callers, how \in Mutations : MutateReturned(t, how)

SpecUAST == InitUAST /\ [][NextUAST]_vars

\* ------------------------------------------------------ metadata readers
\* a goroutine calls SimpleTextFormat.Format(u), JSONFormat.Format(u) or
\* processDefault(u) (through Process, which wants a root) and comes to the
\* read of u.Metadata; none of them takes u.mu.  Each goroutine formats the
\* container once.
CallFormat(t, op) ==
  /\ uast.live
  /\ op = "processDefault" => uast.Root # Nil
  /\ reader[t].pc = "idle"
  /\ reader' = [reader EXCEPT ![t] = [pc |-> "metadata", op |-> op,
                                      before |-> uast.Metadata, raced |-> FALSE,
                                      ret |-> IdleReader.ret]]
  /\ UNCHANGED <<anc, idcall, mappingRules, nodeIDCounter, parallelThreshold, maxGoRoutines, nconfig,
                 conv, frame, idx, result, sem, wg, task, order, unode, uast, arrays, mu, caller>>

\* the read of u.Metadata ends: the language and the entries go to the
\* output; the formats return, processDefault goes on to its lookups
ReadMetadata(t) ==
  /\ reader[t].pc = "metadata"
  /\ \E seen \in MetadataRead(reader[t].before, uast.Metadata, reader[t].raced) :
       reader' = [reader EXCEPT
                    ![t].pc = IF seen.fatal THEN "fatal"
                              ELSE IF reader[t].op = "processDefault" THEN "find"
                              ELSE "returned",
                    ![t].before = EmptyMap,
                    ![t].ret = [fatal |-> seen.fatal, Language |-> uast.Language,
                                Metadata |-> seen.Metadata]]
  /\ UNCHANGED <<anc, idcall, mappingRules, nodeIDCounter, parallelThreshold, maxGoRoutines, nconfig,
                 conv, frame, idx, result, sem, wg, task, order, unode, uast, arrays, mu, caller>>

\* processDefault calls uast.FindByType for its prioritized types: each call
\* takes the read lock, so it waits for a writer, and keeps its clones to
\* itself; then processDefault returns
ProcessDefaultFind(t) ==
  /\ reader[t].pc = "find"
  /\ CanRLock(mu)
  /\ reader' = [reader EXCEPT ![t].pc = "returned"]
  /\ UNCHANGED <<anc, idcall, mappingRules, nodeIDCounter, parallelThreshold, maxGoRoutines, nconfig,
                 conv, frame, idx, result, sem, wg, task, order, unode, uast, arrays, mu, caller>>

NextMetadata ==
  \/ \E t \in Callers, kv \in MetadataArgs : CallAddMetadata(t, kv[1], kv[2])
  \/ \E t \in Callers : Lock(t)
  \/ \E t \in Callers : AddMetadata(t)
  \/ \E t \in Callers, op \in Formats : CallFormat(t, op)
  \/ \E t \in Callers : ReadMetadata(t)
  \/ \E t \in Callers : ProcessDefaultFind(t)

SpecMetadata == InitUAST /\ [][NextMetadata]_vars

\* ---------------------------------------------------------- nextNodeID
\* The goroutines of one converter that call nextNodeID: the convertNode
\* calls of its Convert calls; goroutine g collects the IDs of the tree of
\* Convert call g.
RECURSIVE SumIDCalls(_)
SumIDCalls(g) ==
  IF g = 0 THEN 0
  ELSE Len(idcall[g].got) + (IF idcall[g].pc = "added" THEN 1 ELSE 0) + SumIDCalls(g - 1)

IDCallsMade == SumIDCalls(NumCallers)

\* nextNodeID up to its return: the atomic add and the formatting of the
\* value the add returned
NextNodeIDAdd(g) ==
  /\ idcall[g].pc = "idle"
  /\ IDCallsMade < MaxIDCalls
  /\ LET next == nextNodeID(nodeIDCounter)
     IN  /\ nodeIDCounter' = next.counter
         /\ idcall' = [idcall EXCEPT ![g].pc = "added", ![g].id = next.id]
  /\ UNCHANGED <<reader, mappingRules, parallelThreshold, maxGoRoutines, nconfig, conv, frame,
                 idx, result, sem, wg, task, order, unode, uast, arrays, mu, caller, anc>>

\* nextNodeID returns the string to its caller
NextNodeIDReturn(g) ==
  /\ idcall[g].pc = "added"
  /\ idcall' = [idcall EXCEPT ![g].pc = "idle", ![g].got = Append(@, idcall[g].id)]
  /\ UNCHANGED nodeIDCounter
  /\ UNCHANGED <<reader, mappingRules, parallelThreshold, maxGoRoutines, nconfig, conv, frame,
                 idx, result, sem, wg, task, order, unode, uast, arrays, mu, caller, anc>>

NextIDs ==
  \/ \E g \in Callers : NextNodeIDAdd(g)
  \/ \E g \in Callers : NextNodeIDReturn(g)

SpecIDs == Init /\ [][NextIDs]_vars

\* -------------------------------------------------- GetCommonAncestor
\* GetCommonAncestor(nodes, root) up to the loop over the nodes
GetCommonAncestor(nodes, root) ==
  /\ anc.pc = "idle"
  /\ LET early == DegenerateCase(nodes, root)
     IN  anc' =
           IF early.returns
           THEN [anc EXCEPT !.pc = "done", !.nodes = nodes, !.root = root,
                            !.result = early.result]
           ELSE [anc EXCEPT !.pc = "loop", !.nodes = nodes, !.root = root, !.i = 1]
  /\ UNCHANGED <<reader, mappingRules, nodeIDCounter, parallelThreshold, maxGoRoutines, nconfig,
                 conv, frame, idx, result, sem, wg, task, order, unode, uast, arrays,
                 mu, caller, idcall>>

\* one turn of the loop over the nodes, up to buildPathTo's call of the
\* helper: a nil node is skipped, and buildPathTo(root, root) is [root]
PathLoop ==
  /\ anc.pc = "loop"
  /\ anc.i <= Len(anc.nodes)
  /\ LET node == anc.nodes[anc.i]
     IN  anc' =
           IF node = Nil
           THEN [anc EXCEPT !.i = @ + 1]
           ELSE IF anc.root = node
           THEN [anc EXCEPT !.i = @ + 1,
                            !.nodePaths = StorePath(@, PathKey(unode, node), <<node>>)]
           ELSE [anc EXCEPT !.pc = "enter", !.target = node, !.cur = anc.root,
                            !.stack = <<>>, !.visited = {}, !.visits = <<>>]
  /\ UNCHANGED <<reader, mappingRules, nodeIDCounter, parallelThreshold, maxGoRoutines, nconfig,
                 conv, frame, idx, result, sem, wg, task, order, unode, uast, arrays,
                 mu, caller, idcall>>

\* buildPathToHelper(target, current, visited) up to its loop over the children
buildPathToHelper ==
  /\ anc.pc = "enter"
  /\ anc' =
       IF anc.cur = Nil
       THEN [anc EXCEPT !.pc = "ret", !.ret = <<>>]
       ELSE IF Visited(anc.visited, unode[anc.cur].ID)
       THEN [anc EXCEPT !.pc = "ret", !.ret = <<>>]
       ELSE IF anc.cur = anc.target
       THEN [anc EXCEPT !.pc = "ret", !.ret = <<anc.cur>>,
                        !.visited = @ \cup {unode[anc.cur].ID},
                        !.visits = Append(@, unode[anc.cur].ID)]
       ELSE [anc EXCEPT !.pc = "iter",
                        !.visited = @ \cup {unode[anc.cur].ID},
                        !.visits = Append(@, unode[anc.cur].ID),
                        !.stack = Append(@, [node |-> anc.cur, i |-> 1])]
  /\ UNCHANGED <<reader, mappingRules, nodeIDCounter, parallelThreshold, maxGoRoutines, nconfig,
                 conv, frame, idx, result, sem, wg, task, order, unode, uast, arrays,
                 mu, caller, idcall>>

\* buildPathToHelper: one turn of the loop over current.Children, up to the
\* recursive call; after the last child the helper returns nil
HelperLoop ==
  /\ anc.pc = "iter"
  /\ LET top == anc.stack[Len(anc.stack)]
         children == unode[top.node].Children
     IN  anc' =
           IF top.i > Len(children)
           THEN [anc EXCEPT !.pc = "ret", !.ret = <<>>,
                            !.stack = SubSeq(@, 1, Len(@) - 1)]
           ELSE [anc EXCEPT !.pc = "enter", !.cur = children[top.i]]
  /\ UNCHANGED <<reader, mappingRules, nodeIDCounter, parallelThreshold, maxGoRoutines, nconfig,
                 conv, frame, idx, result, sem, wg, task, order, unode, uast, arrays,
                 mu, caller, idcall>>

\* a call of the helper has returned path: its caller's loop prepends itself
\* to a path that is not nil and returns, or goes on with the next child
HelperReturn ==
  /\ anc.pc = "ret"
  /\ anc.stack # <<>>
  /\ LET top == anc.stack[Len(anc.stack)]
     IN  anc' =
           IF anc.ret # <<>>
           THEN [anc EXCEPT !.ret = <<top.node>> \o @,
                            !.stack = SubSeq(@, 1, Len(@) - 1)]
           ELSE [anc EXCEPT !.pc = "iter", !.stack[Len(anc.stack)].i = @ + 1]
  /\ UNCHANGED <<reader, mappingRules, nodeIDCounter, parallelThreshold, maxGoRoutines, nconfig,
                 conv, frame, idx, result, sem, wg, task, order, unode, uast, arrays,
                 mu, caller, idcall>>

\* buildPathTo has returned path: it is kept if len(path) > 0
PathStore ==
  /\ anc.pc = "ret"
  /\ anc.stack = <<>>
  /\ anc' =
       IF Len(anc.ret) > 0
       THEN [anc EXCEPT !.pc = "loop", !.i = @ + 1,
                        !.nodePaths = StorePath(@, PathKey(unode, anc.target), anc.ret)]
       ELSE [anc EXCEPT !.pc = "loop", !.i = @ + 1]
  /\ UNCHANGED <<reader, mappingRules, nodeIDCounter, parallelThreshold, maxGoRoutines, nconfig,
                 conv, frame, idx, result, sem, wg, task, order, unode, uast, arrays,
                 mu, caller, idcall>>

\* GetCommonAncestor after the loop over the nodes
CommonAncestorReturn ==
  /\ anc.pc = "loop"
  /\ anc.i > Len(anc.nodes)
  /\ anc' = [anc EXCEPT !.pc = "done", !.result = CommonAncestorOf(anc.nodePaths)]
  /\ UNCHANGED <<reader, mappingRules, nodeIDCounter, parallelThreshold, maxGoRoutines, nconfig,
                 conv, frame, idx, result, sem, wg, task, order, unode, uast, arrays,
                 mu, caller, idcall>>

\* the nodes are built by hand before the call
InitAncestor ==
  /\ mappingRules = defaultMappingRules
  /\ nodeIDCounter = 0
  /\ parallelThreshold = DefaultParallelThreshold
  /\ maxGoRoutines = DefaultMaxGoRoutines
  /\ nconfig = 0
  /\ conv = [pc |-> "idle", root |-> Nil, language |-> "", rules |-> EmptyMap]
  /\ frame = [n \in Nodes |-> "none"]
  /\ idx = [n \in Nodes |-> 0]
  /\ result = [n \in Nodes |-> <<>>]
  /\ sem = [n \in Nodes |-> 0]
  /\ wg = [n \in Nodes |-> 0]
  /\ task = [n \in Nodes |-> "none"]
  /\ order = [n \in Nodes |-> <<>>]
  /\ \E g \in GraphNames : unode = SampleGraphs[g]
  /\ uast = NoUAST
  /\ arrays = <<>>
  /\ mu = [writer |-> Nil, readers |-> 0]
  /\ caller = [t \in Callers |-> IdleCaller]
  /\ anc = IdleAncestor
  /\ idcall = [g \in Callers |-> IdleIDCaller]
  /\ reader = [t \in Callers |-> IdleReader]

NextAncestor ==
  \/ \E nodes \in Queries(MaxQuery), root \in QueryRoots : GetCommonAncestor(nodes, root)
  \/ PathLoop
  \/ buildPathToHelper
  \/ HelperLoop
  \/ HelperReturn
  \/ PathStore
  \/ CommonAncestorReturn

SpecAncestor == InitAncestor /\ [][NextAncestor]_vars

\* GetCommonAncestor is sequential code: a call that has begun takes its next
\* step
AncestorSteps ==
  \/ PathLoop
  \/ buildPathToHelper
  \/ HelperLoop
  \/ HelperReturn
  \/ PathStore
  \/ CommonAncestorReturn

SpecAncestorLive == SpecAncestor /\ WF_vars(AncestorSteps)

\* ------------------------------------------------- claims on the converter
\* the addresses reachable from node n over Children, in the heap h
RECURSIVE Reach(_, _)
Reach(h, n) ==
  IF n = Nil \/ n \notin DOMAIN h THEN {}
  ELSE {n} \cup UNION {Reach(h, h[n].Children[i]) : i \in 1..Len(h[n].Children)}

\* per CST node: the slots of its children slice that are not nil, and its
\* children that are not nil, in their order
ChildSlots ==
  [n \in Nodes |-> {i \in 1..Len(TS[n].Children) : TS[n].Children[i] # Nil}]

NonNilChildren == [n \in Nodes |-> SelectSeq(TS[n].Children, LAMBDA c : c # Nil)]

\* what the ordering guarantee compares of a node
View(node) == [Type |-> node.Type, Token |-> node.Token, Location |-> node.Location]

\* the result convertChildrenSequential computes for a children slice: what
\* its loop from index i on appends to res
SeqChildren(children, i, res) ==
  res \o SelectSeq(SubSeq(children, i, Len(children)), LAMBDA c : c # Nil)

\* the tasks that have been started and have not yet released their slot
Executing == {c \in Nodes : task[c] \in {"run", "release"}}

\* C1: the tree Convert returns has pairwise distinct node IDs: k nodes
\* carry k IDs, whatever was converted in parallel and in whatever order.
C1_DistinctIDs ==
  conv.pc = "done" =>
    LET tree == Reach(unode, uast.Root)
    IN  Cardinality({unode[n].ID : n \in tree}) = Cardinality(tree)

\* a returned tree of six nodes with a nested fan-out, whose IDs are not in
\* pre-order
C1_Witness ==
  /\ conv.pc = "done"
  /\ Cardinality(Reach(unode, uast.Root)) = 6
  /\ UseParallel(Len(TS[2].Children), parallelThreshold)
  /\ unode[3].ID = <<2>>

\* C2: the children a fan-out returns are, element for element in kind,
\* token and location, the children the sequential loop returns for the same
\* input, whatever the order in which the tasks complete.
C2_ParallelOrder ==
  \A n \in Nodes :
    (frame[n] = "returned" /\ UseParallel(Len(TS[n].Children), parallelThreshold)) =>
      LET got == unode[n].Children
          want == SeqChildren(TS[n].Children, 1, <<>>)
      IN  /\ Len(got) = Len(want)
          /\ \A i \in 1..Len(got) :
               /\ got[i] \in DOMAIN unode
               /\ View(unode[got[i]]) = View(NewNode(conv.rules, <<>>, TS[want[i]]))

\* the fan-out of node 1 has returned, and its second task stored first
C2_Witness ==
  /\ frame[1] = "returned"
  /\ UseParallel(Len(TS[1].Children), parallelThreshold)
  /\ order[1] = <<3, 2>>
  /\ unode[1].Children = <<2, 3>>

\* C3: over the whole tree, at most maxGoRoutines child tasks execute at
\* once.
C3_GlobalLimit == Cardinality(Executing) <= maxGoRoutines

\* C4: in both paths a converted node has as many children as its input has
\* non-nil children, and none of them is nil.
C4_NilCompaction ==
  \A n \in Nodes :
    frame[n] = "returned" =>
      /\ Len(unode[n].Children) =
           Cardinality({i \in 1..Len(TS[n].Children) : TS[n].Children[i] # Nil})
      /\ \A i \in 1..Len(unode[n].Children) : unode[n].Children[i] # Nil

\* node 1, children [2, nil, 3], went through the fan-out and node 6,
\* children [nil], through the sequential loop
C4_Witness ==
  /\ frame[1] = "returned"
  /\ UseParallel(Len(TS[1].Children), parallelThreshold)
  /\ unode[1].Children = <<2, 3>>
  /\ ~UseParallel(Len(TS[6].Children), parallelThreshold)
  /\ frame[6] = "returned"
  /\ unode[6].Children = <<>>

\* C5: Convert with a nil root returns an error and no UAST, for every
\* language, and issues no ID and changes nothing of the converter.
C5_NilRoot ==
  [][(conv.pc = "idle" /\ conv'.pc # "idle" /\ conv'.root = Nil) =>
       /\ conv'.pc = "error"
       /\ ~uast'.live
       /\ UNCHANGED <<nodeIDCounter, mappingRules, parallelThreshold, maxGoRoutines, unode>>]_vars

\* Convert(nil, "go") has returned its error on a configured converter
C5_Witness ==
  /\ conv.pc = "error"
  /\ conv.root = Nil
  /\ conv.language = "go"
  /\ nconfig > 0
  /\ nodeIDCounter = 0
  /\ ~uast.live

\* ------------------------------------------------- claims on the container
\* what FindByType(k) and FindByToken(k) show of the indices
TypeView(k) ==
  IF k \in DOMAIN uast.TypeIndex THEN SliceValue(arrays, uast.TypeIndex[k]) ELSE <<>>

TokenView(k) ==
  IF k \in DOMAIN uast.TokenIndex THEN SliceValue(arrays, uast.TokenIndex[k]) ELSE <<>>

Count(seq, x) == Cardinality({i \in 1..Len(seq) : seq[i] = x})

Elems(seq) == {seq[i] : i \in 1..Len(seq)}

Writers == {t \in Callers : caller[t].pc = "writing"}

Readers == {t \in Callers : caller[t].pc = "reading"}

\* C6: every node reachable from the root is once in typeIndex under its
\* kind and, with a non-empty token, once in tokenIndex under its token;
\* an index entry holds exactly the tree's nodes of that kind or token.
C6_IndexInvariant ==
  uast.live =>
    LET tree == Reach(unode, uast.Root)
    IN  /\ \A n \in tree :
             /\ Count(TypeView(unode[n].Type), n) = 1
             /\ unode[n].Token # "" => Count(TokenView(unode[n].Token), n) = 1
        /\ \A k \in DOMAIN uast.TypeIndex :
             Elems(TypeView(k)) = {n \in tree : unode[n].Type = k}
        /\ \A k \in DOMAIN uast.TokenIndex :
             /\ k # ""
             /\ Elems(TokenView(k)) = {n \in tree : unode[n].Token = k}

\* after an AddMetadata, a caller holds the two Unknown nodes of the tree
C6_Witness ==
  /\ uast.live
  /\ uast.Root = 1
  /\ DOMAIN uast.Metadata # {}
  /\ \E t \in Callers :
       /\ caller[t].pc = "idle"
       /\ caller[t].op = "FindByType"
       /\ caller[t].arg = "Unknown"
       /\ SliceValue(arrays, caller[t].ret) = <<3, 6>>

\* C7 as stated: a metadata write in progress does not delay an index read,
\* and an index read in progress does not delay a metadata write.
C7_NoBlocking ==
  \A t \in Callers, r \in Callers :
    /\ (caller[t].pc = "writing" /\ caller[t].op = "AddMetadata" /\ caller[r].pc = "rlock")
         => ENABLED RLock(r)
    /\ (caller[r].pc = "reading" /\ caller[t].pc = "lock" /\ caller[t].op = "AddMetadata")
         => ENABLED Lock(t)

\* C7 as amended: AddMetadata and the lookups take the one lock u.mu, so a
\* metadata write in progress keeps every index read waiting and an index
\* read in progress keeps a metadata write waiting; only index reads do not
\* delay each other.
C7_SharedLock ==
  \A t \in Callers, r \in Callers :
    /\ (caller[t].pc = "writing" /\ caller[t].op = "AddMetadata" /\ caller[r].pc = "rlock")
         => ~ENABLED RLock(r)
    /\ (caller[r].pc = "reading" /\ caller[t].pc = "lock" /\ caller[t].op = "AddMetadata")
         => ~ENABLED Lock(t)
    /\ (caller[r].pc = "reading" /\ caller[t].pc = "rlock")
         => ENABLED RLock(t)

\* an AddMetadata holds the lock while a FindByType waits at its RLock
C7_Witness ==
  \E t \in Callers, r \in Callers :
    /\ caller[t].pc = "writing"
    /\ caller[t].op = "AddMetadata"
    /\ caller[r].pc = "rlock"
    /\ caller[r].op = "FindByType"

\* C8: a write of the metadata map or of the index maps overlaps neither
\* another write nor a read of the index maps.
C8_Exclusion ==
  /\ Cardinality(Writers) <= 1
  /\ Writers # {} => Readers = {}
  /\ mu.readers = Cardinality(Readers)
  /\ \A t \in Callers : (mu.writer = t) <=> (t \in Writers)

\* buildIndices holds the lock while an AddMetadata waits at its Lock
C8_Witness ==
  \E t \in Callers, w \in Callers :
    /\ caller[t].pc = "writing"
    /\ caller[t].op = "buildIndices"
    /\ caller[w].pc = "lock"
    /\ caller[w].op = "AddMetadata"

\* C9: a lookup returns a fresh non-nil copy of the stored sequence, the
\* empty one for a key without entry, and adds no entry; a change of a
\* returned slice changes nothing of what the indices show.
C9_FreshCopy ==
  [][\A t \in Callers :
       /\ (caller[t].pc = "idle" /\ caller'[t].op = "mutate"
             /\ caller'[t].nops = caller[t].nops + 1)
            => /\ \A k \in DOMAIN uast.TypeIndex \cup TypeArgs : TypeView(k)' = TypeView(k)
               /\ \A k \in DOMAIN uast.TokenIndex \cup TokenArgs : TokenView(k)' = TokenView(k)
       /\ (caller[t].pc = "reading" /\ caller'[t].pc = "idle")
            => /\ ~caller'[t].ret.nil
               /\ SliceValue(arrays', caller'[t].ret) =
                    IF caller[t].op = "FindByType" THEN TypeView(caller[t].arg)
                    ELSE TokenView(caller[t].arg)
               /\ \A k \in DOMAIN uast'.TypeIndex : uast'.TypeIndex[k].arr # caller'[t].ret.arr
               /\ \A k \in DOMAIN uast'.TokenIndex : uast'.TokenIndex[k].arr # caller'[t].ret.arr
               /\ DOMAIN uast'.TypeIndex = DOMAIN uast.TypeIndex
               /\ DOMAIN uast'.TokenIndex = DOMAIN uast.TokenIndex]_vars

\* a caller overwrote the first element of the slice FindByType("Unknown")
\* gave it, and another caller's lookup of the same kind shows both nodes
C9_Witness ==
  \E t \in Callers, r \in Callers :
    /\ caller[t].op = "mutate"
    /\ caller[t].arg = "Unknown"
    /\ SliceValue(arrays, caller[t].ret) = <<Nil, 6>>
    /\ caller[r].pc = "idle"
    /\ caller[r].op = "FindByType"
    /\ caller[r].arg = "Unknown"
    /\ SliceValue(arrays, caller[r].ret) = <<3, 6>>

\* C10: AddMetadata(key, value) sets metadata[key] to value and changes no
\* other entry, nor the root, the language or what the indices show.
C10_AddMetadataFrame ==
  [][\A t \in Callers :
       (caller[t].pc = "writing" /\ caller[t].op = "AddMetadata" /\ caller'[t].pc = "idle")
         => /\ DOMAIN uast'.Metadata = DOMAIN uast.Metadata \cup {caller[t].arg}
            /\ uast'.Metadata[caller[t].arg] = caller[t].val
            /\ \A k \in DOMAIN uast.Metadata \ {caller[t].arg} :
                 uast'.Metadata[k] = uast.Metadata[k]
            /\ uast'.Root = uast.Root
            /\ uast'.Language = uast.Language
            /\ uast'.TypeIndex = uast.TypeIndex
            /\ uast'.TokenIndex = uast.TokenIndex
            /\ \A k \in DOMAIN uast.TypeIndex \cup TypeArgs : TypeView(k)' = TypeView(k)
            /\ \A k \in DOMAIN uast.TokenIndex \cup TokenArgs : TokenView(k)' = TokenView(k)]_vars

\* a second key was added and the first key was overwritten
C10_Witness ==
  /\ DOMAIN uast.Metadata = {"filename", "version"}
  /\ uast.Metadata["filename"] = "b.go"
  /\ uast.Root = 1

\* ---------------------------------------------- GetCommonAncestor: claims
\* the query nodes of the call, and the nodes its root leads to by child links
QueryNodes == {anc.nodes[i] : i \in 1..Len(anc.nodes)} \ {Nil}

ChildrenOf(h, n) == {h[n].Children[i] : i \in 1..Len(h[n].Children)} \ {Nil}

RECURSIVE Closure(_, _)
Closure(h, S) ==
  LET T == S \cup UNION {ChildrenOf(h, n) : n \in S}
  IN  IF T = S THEN S ELSE Closure(h, T)

Reachable(h, root) == IF root = Nil THEN {} ELSE Closure(h, {root})

\* the root-to-node path of a node: the path along the child links, first
\* child first, told apart by node identity
RECURSIVE IdentityPath(_, _, _, _), IdentityPathChildren(_, _, _, _, _)

IdentityPath(h, target, current, seen) ==
  IF current = Nil \/ current \in seen THEN [path |-> <<>>, seen |-> seen]
  ELSE IF current = target THEN [path |-> <<current>>, seen |-> seen \cup {current}]
  ELSE IdentityPathChildren(h, target, current, 1, seen \cup {current})

IdentityPathChildren(h, target, current, i, seen) ==
  IF i > Len(h[current].Children) THEN [path |-> <<>>, seen |-> seen]
  ELSE LET r == IdentityPath(h, target, h[current].Children[i], seen)
       IN  IF r.path # <<>>
           THEN [path |-> <<current>> \o r.path, seen |-> r.seen]
           ELSE IdentityPathChildren(h, target, current, i + 1, r.seen)

RootPath(h, root, target) == IdentityPath(h, target, root, {}).path

\* the last node of the longest common prefix of a set of paths that all
\* start at the root
DeepestCommon(paths) ==
  LET p == CHOOSE q \in paths : TRUE
      agree(k) == \A q \in paths : Len(q) >= k /\ \A j \in 1..k : q[j] = p[j]
      k == CHOOSE m \in 1..Len(p) : agree(m) /\ (m = Len(p) \/ ~agree(m + 1))
  IN  p[k]

\* C11: for a non-nil root and a query of two or more nodes of which at least
\* one is reachable from the root, GetCommonAncestor returns the last node of
\* the longest common prefix of the root-to-node paths of all the reachable
\* query nodes, compared by node identity.
C11_DeepestCommonAncestor ==
  (/\ anc.pc = "done"
   /\ anc.root # Nil
   /\ Len(anc.nodes) >= 2
   /\ QueryNodes \cap Reachable(unode, anc.root) # {})
  => anc.result =
       DeepestCommon({RootPath(unode, anc.root, q) :
                        q \in QueryNodes \cap Reachable(unode, anc.root)})

\* C12: GetCommonAncestor returns nil for an empty query, and the single node
\* of a query of exactly one node, whether or not the root leads to that node.
C12_EmptyAndSingle ==
  anc.pc = "done" =>
    /\ Len(anc.nodes) = 0 => anc.result = Nil
    /\ Len(anc.nodes) = 1 => anc.result = anc.nodes[1]

\* a single node that no child link leads to from the root, and a single node
\* with a nil root
C12_Witness ==
  /\ anc.pc = "done"
  /\ anc.nodes = <<5>>
  /\ anc.root = 1
  /\ 5 \notin Reachable(unode, anc.root)
  /\ anc.result = 5

\* C13 as stated: GetCommonAncestor returns nil whenever the root is nil, for
\* every query, and returns nil when no node of a query of two or more nodes
\* is reachable from the root.
C13_NilRootAlways ==
  anc.pc = "done" =>
    /\ anc.root = Nil => anc.result = Nil
    /\ (Len(anc.nodes) >= 2 /\ QueryNodes \cap Reachable(unode, anc.root) = {})
         => anc.result = Nil

\* C13: GetCommonAncestor returns nil when the root is nil and the query does
\* not hold exactly one node; a query of exactly one node gives that node
\* also with a nil root; and it returns nil when no node of a query of two or
\* more nodes is reachable from the root.
C13_NilRoot ==
  anc.pc = "done" =>
    /\ (anc.root = Nil /\ Len(anc.nodes) # 1) => anc.result = Nil
    /\ (anc.root = Nil /\ Len(anc.nodes) = 1) => anc.result = anc.nodes[1]
    /\ (Len(anc.nodes) >= 2 /\ QueryNodes \cap Reachable(unode, anc.root) = {})
         => anc.result = Nil

\* a query of two nodes of the graph is answered for a nil root
C13_Witness ==
  /\ anc.pc = "done"
  /\ anc.root = Nil
  /\ anc.nodes = <<1, 4>>
  /\ anc.result = Nil

\* C14: GetCommonAncestor and buildPathTo terminate on every finite node
\* graph, also when the child links form a cycle or share a node: a path
\* search marks every node ID at most once, and a call that has begun returns.
C14_Terminates ==
  /\ [](\A i, j \in 1..Len(anc.visits) : i # j => anc.visits[i] # anc.visits[j])
  /\ (anc.pc # "idle") ~> (anc.pc = "done")

\* on the cyclic graph the search for a node the root does not lead to has
\* been through every node the root leads to, and the call has returned
C14_Witness ==
  /\ anc.pc = "done"
  /\ unode = SampleGraphs.cyclic
  /\ anc.root = 1
  /\ anc.nodes = <<4, 5>>
  /\ anc.visits = <<<<1>>, <<2>>, <<4>>, <<3>>>>
  /\ anc.result = 4

\* ------------------------------------------------------- converter: claims
\* the four coordinates of a CST node next to the uint32 values stored for them
Coordinates(n) ==
  {<<TS[n].StartPoint[1], unode[n].Location.Start.Line>>,
   <<TS[n].StartPoint[2], unode[n].Location.Start.Column>>,
   <<TS[n].EndPoint[1], unode[n].Location.End.Line>>,
   <<TS[n].EndPoint[2], unode[n].Location.End.Column>>}

\* a uint32 kept as limbs is the integer v
IsValue(u, v) == u.hi < LimbBase \div 2 /\ u.hi * LimbBase + u.lo = v

\* a uint32 kept as limbs is the integer v + 2^32
IsWrapped(u, v) == u.hi >= LimbBase \div 2 /\ (u.hi - LimbBase) * LimbBase + u.lo = v

\* C15 as stated: every stored line and column is the mathematical value of
\* the coordinate plus one, for negative coordinates too.
C15_ExactOffset ==
  \A n \in DOMAIN unode : \A c \in Coordinates(n) : IsValue(c[2], c[1] + 1)

\* C15: every stored line and column is the coordinate plus one modulo 2^32:
\* the coordinate plus one itself when that is not negative, and 2^32 more
\* when it is; in the sequential and in the parallel path alike.
C15_OffsetMod32 ==
  \A n \in DOMAIN unode : \A c \in Coordinates(n) :
    /\ c[2].lo \in 0..(LimbBase - 1)
    /\ c[2].hi \in 0..(LimbBase - 1)
    /\ IF c[1] + 1 >= 0 THEN IsValue(c[2], c[1] + 1) ELSE IsWrapped(c[2], c[1] + 1)

\* node 6 (row -2, column 65535) has been converted below a fan-out task:
\* its line is 2^32 - 1 and its column 65536
C15_Witness ==
  /\ 6 \in DOMAIN unode
  /\ task[3] # "none"
  /\ unode[6].Location.Start.Line = [hi |-> 65535, lo |-> 65535]
  /\ unode[6].Location.Start.Column = [hi |-> 1, lo |-> 0]
  /\ unode[6].Location.End.Line = [hi |-> 0, lo |-> 8]

\* the number a decimal string of digits denotes
RECURSIVE ParseUint(_)
ParseUint(digits) ==
  IF Len(digits) = 0 THEN 0
  ELSE ParseUint(SubSeq(digits, 1, Len(digits) - 1)) * 10 + digits[Len(digits)]

\* the calls of nextNodeID that have returned, as <<goroutine, position>>
ReturnedCalls == {<<g, i>> \in Callers \X (1..MaxIDCalls + 1) : i <= Len(idcall[g].got)}

\* C16: every call of nextNodeID returns the decimal string of a counter that
\* starts at 1 and grows by one per call: no two calls return the same value,
\* in any interleaving and for the calls of several Convert calls; the values
\* a goroutine gets grow; and when m calls have been made and have returned,
\* the values returned are the decimal strings of 1..m.
C16_CounterIDs ==
  /\ \A a, b \in ReturnedCalls :
       a # b => idcall[a[1]].got[a[2]] # idcall[b[1]].got[b[2]]
  /\ \A a \in ReturnedCalls :
       /\ idcall[a[1]].got[a[2]] = FormatUint(ParseUint(idcall[a[1]].got[a[2]]))
       /\ ParseUint(idcall[a[1]].got[a[2]]) \in 1..nodeIDCounter
       /\ a[2] > 1 => ParseUint(idcall[a[1]].got[a[2] - 1]) < ParseUint(idcall[a[1]].got[a[2]])
  /\ (\A g \in Callers : idcall[g].pc = "idle")
       => {ParseUint(idcall[a[1]].got[a[2]]) : a \in ReturnedCalls} = 1..IDCallsMade

\* two goroutines have got the IDs of five interleaved calls
C16_Witness ==
  /\ \A g \in Callers : idcall[g].pc = "idle"
  /\ idcall[1].got = <<<<2>>, <<5>>>>
  /\ idcall[2].got = <<<<1>>, <<3>>, <<4>>>>
  /\ nodeIDCounter = 5

\* C17: every Convert call with a non-nil root returns, for every threshold
\* and every capacity of the limiter, with capacity 1 and with fan-outs nested
\* in fan-outs: no execution stops at the limiter or at the wait for the tasks.
C17_ConvertReturns == (conv.pc = "running") ~> (conv.pc = "done")

\* a conversion with threshold 1 and capacity 1 has returned; the fan-out of
\* node 2 ran inside a task of the fan-out of node 1
C17_Witness ==
  /\ conv.pc = "done"
  /\ conv.root = 1
  /\ parallelThreshold = 1
  /\ maxGoRoutines = 1
  /\ task[2] = "exit"
  /\ task[4] = "exit"
  /\ task[5] = "exit"

\* C18: the kind of a converted node is the value its raw type has in the
\* converter's table when the node is converted, or Unknown when the table has
\* no entry for it; AddMappingRule sets the entry of its type and leaves the
\* other entries alone, so the entry is the value registered last; and no node
\* changes its kind later, not by AddMappingRule after Convert has returned.
C18_KindFromTable ==
  [][/\ \A n \in DOMAIN unode' \ DOMAIN unode :
          unode'[n].Type = IF TS[n].Type \in DOMAIN mappingRules
                           THEN mappingRules[TS[n].Type] ELSE "Unknown"
     /\ \A n \in DOMAIN unode : n \in DOMAIN unode' /\ unode'[n].Type = unode[n].Type
     /\ mappingRules' # mappingRules =>
          /\ unode' = unode
          /\ uast' = uast
          /\ \E r \in RuleArgs :
               /\ DOMAIN mappingRules' = DOMAIN mappingRules \cup {r[1]}
               /\ mappingRules'[r[1]] = r[2]
               /\ \A t \in DOMAIN mappingRules \ {r[1]} : mappingRules'[t] = mappingRules[t]
    ]_vars

\* a tree has been returned whose nodes took a default kind and Unknown, and
\* a rule for impl_block has been added since: node 3 keeps the kind Unknown
C18_Witness ==
  /\ conv.pc = "done"
  /\ conv.root = 1
  /\ "impl_block" \in DOMAIN mappingRules
  /\ mappingRules["impl_block"] = "Class"
  /\ unode[1].Type = "File"
  /\ unode[2].Type = "Function"
  /\ unode[3].Type = "Unknown"

\* C19: when a fan-out has returned, every task it spawned has ended and the
\* children it returned are all the non-nil children of the input, so no task
\* writes to the result afterwards; when Convert has returned no task runs,
\* and the tree holds one node for each CST node the root leads to through
\* non-nil children, with the children of the CST node in their order.
C19_FanOutComplete ==
  /\ \A n \in Nodes :
       frame[n] = "returned" =>
         /\ \A i \in ChildSlots[n] :
              /\ task[TS[n].Children[i]] \in {"none", "exit"}
              /\ frame[TS[n].Children[i]] = "returned"
         /\ unode[n].Children = NonNilChildren[n]
  /\ conv.pc = "done" =>
       /\ \A c \in Nodes : task[c] \in {"none", "exit"}
       /\ uast.Root = conv.root
       /\ Reach(unode, uast.Root) = Reach(TS, conv.root)
       /\ DOMAIN unode = Reach(TS, conv.root)
       /\ nodeIDCounter = Cardinality(Reach(TS, conv.root))

\* Convert has returned the tree of root 1 after two nested fan-outs whose
\* tasks stored their results against the input order
C19_Witness ==
  /\ conv.pc = "done"
  /\ conv.root = 1
  /\ order[1] = <<3, 2>>
  /\ order[2] = <<5, 4>>
  /\ \A c \in {2, 3, 4, 5} : task[c] = "exit"
  /\ unode[1].Children = <<2, 3>>
  /\ unode[2].Children = <<4, 5>>

RECURSIVE Preorder(_), PreorderAll(_, _)

Preorder(n) == <<n>> \o PreorderAll(NonNilChildren[n], 1)

PreorderAll(children, i) ==
  IF i > Len(children) THEN <<>>
  ELSE Preorder(children[i]) \o PreorderAll(children, i + 1)

\* for each root, its nodes in pre-order
PreorderOf == [r \in Nodes |-> Preorder(r)]

\* the ID the node of n gets when the calls of nextNodeID come in pre-order
PreorderID(root, n) ==
  FormatUint(CHOOSE k \in 1..Len(PreorderOf[root]) : PreorderOf[root][k] = n)

\* node n converts its children by a fan-out that starts two tasks or more
\* with room for two in its semaphore
RacingFanOut(n) ==
  /\ Len(TS[n].Children) > parallelThreshold
  /\ Len(TS[n].Children) < 1000
  /\ Cardinality(ChildSlots[n]) >= 2
  /\ maxGoRoutines >= 2

\* the fan-out of n stands before the send on its semaphore for a child, while
\* the convertNode call of the task of an earlier child has yet to take its ID
EarlierCallPending(n) ==
  /\ frame[n] = "paracq"
  /\ \E i \in ChildSlots[n] : i < idx[n] /\ frame[TS[n].Children[i]] = "called"

\* C21 as stated: whenever a fan-out is triggered the IDs are open.  While the
\* call of an earlier child's task has yet to take its ID, the fan-out can
\* start the task of the next child, whose call then takes the ID in one
\* execution and leaves it to the earlier child in another.
C21_EveryFanOutRaces ==
  \A n \in Nodes : EarlierCallPending(n) => ENABLED ParAcquire(n)

\* C21: kind, token, location and children order of every node are the same
\* in all executions; the IDs are those of the pre-order when no node of the
\* tree has a fan-out of two tasks or more with a semaphore of capacity two or
\* more (no fan-out at all, fan-outs of capacity 1, fan-outs with fewer than
\* two non-nil children); and in a fan-out with such a capacity the second
\* task can start while the call of the first has yet to take its ID, so that
\* either call can take the next ID.
C21_IDsUnderFanOut ==
  conv.pc \in {"running", "done"} =>
    /\ \A n \in DOMAIN unode :
         View(unode[n]) = View(NewNode(conv.rules, <<>>, TS[n]))
    /\ conv.pc = "done" =>
         \A n \in Reach(unode, uast.Root) : unode[n].Children = NonNilChildren[n]
    /\ (\A n \in Elems(PreorderOf[conv.root]) : ~RacingFanOut(n)) =>
         \A n \in DOMAIN unode : unode[n].ID = PreorderID(conv.root, n)
    /\ \A n \in Nodes :
         (/\ EarlierCallPending(n)
          /\ maxGoRoutines >= 2
          /\ Cardinality({i \in ChildSlots[n] : i < idx[n]}) = 1) =>
           /\ ENABLED ParAcquire(n)
           /\ \A i \in ChildSlots[n] :
                (i < idx[n] /\ frame[TS[n].Children[i]] = "called")
                  => ENABLED convertNode(TS[n].Children[i])

\* a conversion of root 1 with threshold 1 and the default capacity has
\* returned a tree in which node 3, fifth in pre-order, has the ID 2
C21_Witness ==
  /\ conv.pc = "done"
  /\ conv.root = 1
  /\ parallelThreshold = 1
  /\ maxGoRoutines = DefaultMaxGoRoutines
  /\ PreorderOf[1] = <<1, 2, 4, 5, 3, 6>>
  /\ unode[3].ID = <<2>>
  /\ unode[1].Children = <<2, 3>>

\* C22: every read of u.Metadata by SimpleTextFormat.Format, JSONFormat.Format
\* and processDefault is synchronized with AddMetadata: no such read has an
\* AddMetadata write on the same container within it.
C22_ReadsSynchronized == \A t \in Callers : ~reader[t].raced

\* the paths GetCommonAncestor compares: the values of nodePaths
ComparedPaths == {anc.nodePaths[k] : k \in DOMAIN anc.nodePaths}

\* C23: in a call with two or more query nodes and a non-nil root, the paths
\* that are compared are the root-to-node paths of the query nodes that child
\* links reach from the root, one for each such node, and no other path; on
\* every graph, graphs whose distinct nodes carry equal ID strings included.
C23_ReachableContribute ==
  (/\ anc.pc = "done"
   /\ anc.root # Nil
   /\ Len(anc.nodes) >= 2)
  => ComparedPaths =
       {RootPath(unode, anc.root, q) : q \in QueryNodes \cap Reachable(unode, anc.root)}

====
